---- MODULE Spec2Model ----
(***************************************************************************)
(* Tick-Tock-Toe backend: a 3x3 three-in-a-row game with a sliding window  *)
(* of three live pieces per player (GameState), the HTTP handlers that     *)
(* drive one game (make_move, reset_game) and the computer opponent        *)
(* (AiPlayer), the learner ThreeSolver, and the handlers as concurrent     *)
(* requests on the games of AppState.                                      *)
(*                                                                         *)
(* game is the GameState under study, last the outcome of the last call,   *)
(* calls a count of accepted moves, solver a ThreeSolver and app the       *)
(* AppState with the requests in progress.                                 *)
(***************************************************************************)
EXTENDS Integers, Sequences, FiniteSets, TLC

VARIABLES game, last, calls, solver, app

vars == <<game, last, calls, solver, app>>

------------------------------------------------------------------------------
(* Data of GameState *)

None == "None"

Players == {"X", "O"}

Coord == 0 .. 2

Cells == Coord \X Coord

\* the row-major scan (0..3).flat_map(|x| (0..3).map(|y| (x, y)))
CellSeq ==
  << <<0, 0>>, <<0, 1>>, <<0, 2>>,
     <<1, 0>>, <<1, 1>>, <<1, 2>>,
     <<2, 0>>, <<2, 1>>, <<2, 2>> >>

\* moves.len() > 3
WindowSize == 3

NoLine == << >>

win_patterns ==
  << << <<0, 0>>, <<0, 1>>, <<0, 2>> >>,
     << <<1, 0>>, <<1, 1>>, <<1, 2>> >>,
     << <<2, 0>>, <<2, 1>>, <<2, 2>> >>,
     << <<0, 0>>, <<1, 0>>, <<2, 0>> >>,
     << <<0, 1>>, <<1, 1>>, <<2, 1>> >>,
     << <<0, 2>>, <<1, 2>>, <<2, 2>> >>,
     << <<0, 0>>, <<1, 1>>, <<2, 2>> >>,
     << <<0, 2>>, <<1, 1>>, <<2, 0>> >> >>

Difficulties == {"Easy", "Medium", "Hard"}

\* [[None, None, None], [None, None, None], [None, None, None]]
EmptyBoard ==
  <<0, 0>> :> None @@ <<0, 1>> :> None @@ <<0, 2>> :> None @@
  <<1, 0>> :> None @@ <<1, 1>> :> None @@ <<1, 2>> :> None @@
  <<2, 0>> :> None @@ <<2, 1>> :> None @@ <<2, 2>> :> None

\* GameState::new(is_ai_game, ai_level)
new(is_ai_game, difficulty) ==
  [ board          |-> EmptyBoard,
    current_player |-> "X",
    moves_x        |-> << >>,
    moves_o        |-> << >>,
    winner         |-> None,
    winning_line   |-> NoLine,
    is_ai_game     |-> is_ai_game,
    difficulty     |-> difficulty ]

other(p) == IF p = "X" THEN "O" ELSE "X"

\* does pattern number i hold three equal non-empty occupants
line_complete(board, i) ==
  LET a == win_patterns[i][1]
      b == win_patterns[i][2]
      c == win_patterns[i][3]
  IN  /\ board[a] # None
      /\ board[a] = board[b]
      /\ board[a] = board[c]

\* the loop of check_winner from pattern i on: the first complete pattern
\* sets winner and winning_line and returns; with none, nothing is assigned
RECURSIVE scan_patterns(_, _)
scan_patterns(g, i) ==
  IF i > Len(win_patterns) THEN g
  ELSE IF line_complete(g.board, i)
       THEN [g EXCEPT !.winner = g.board[win_patterns[i][1]],
                      !.winning_line = win_patterns[i]]
       ELSE scan_patterns(g, i + 1)

\* a winner check that scans the rows and columns only
RECURSIVE scan_rows_columns(_, _)
scan_rows_columns(g, i) ==
  IF i > 6 THEN g
  ELSE IF line_complete(g.board, i)
       THEN [g EXCEPT !.winner = g.board[win_patterns[i][1]],
                      !.winning_line = win_patterns[i]]
       ELSE scan_rows_columns(g, i + 1)

check_winner_no_diagonals(g) == scan_rows_columns(g, 1)

check_winner(g) == scan_patterns(g, 1)

\* the placement with a given eviction test and a given index to remove,
\* clearing the removed cell on the board or not
put_piece_with(g, x, y, limit, index, clear) ==
  LET p       == g.current_player
      b1      == [g.board EXCEPT ![<<x, y>>] = p]
      pushed  == Append(IF p = "X" THEN g.moves_x ELSE g.moves_o, <<x, y>>)
      evict   == Len(pushed) > limit
      moves   == IF evict
                 THEN SubSeq(pushed, 1, index - 1)
                        \o SubSeq(pushed, index + 1, Len(pushed))
                 ELSE pushed
      b2      == IF evict /\ clear
                 THEN [b1 EXCEPT ![pushed[index]] = None]
                 ELSE b1
  IN  [ g |-> [g EXCEPT !.board = b2,
                        !.moves_x = IF p = "X" THEN moves ELSE g.moves_x,
                        !.moves_o = IF p = "X" THEN g.moves_o ELSE moves],
        evicted |-> evict ]

\* moves.len() > 4 in place of moves.len() > 3
put_piece_late(g, x, y) == put_piece_with(g, x, y, WindowSize + 1, 1, TRUE)

\* moves.remove(1) in place of moves.remove(0)
put_piece_second(g, x, y) == put_piece_with(g, x, y, WindowSize, 2, TRUE)

\* the oldest move leaves the history and stays on the board
put_piece_keep_cell(g, x, y) == put_piece_with(g, x, y, WindowSize, 1, FALSE)

\* the successful branch of place_piece, up to the eviction
put_piece(g, x, y) ==
  LET p       == g.current_player
      b1      == [g.board EXCEPT ![<<x, y>>] = p]
      pushed  == Append(IF p = "X" THEN g.moves_x ELSE g.moves_o, <<x, y>>)
      evict   == Len(pushed) > WindowSize
      moves   == IF evict THEN Tail(pushed) ELSE pushed
      b2      == IF evict THEN [b1 EXCEPT ![Head(pushed)] = None] ELSE b1
  IN  [ g |-> [g EXCEPT !.board = b2,
                        !.moves_x = IF p = "X" THEN moves ELSE g.moves_x,
                        !.moves_o = IF p = "X" THEN g.moves_o ELSE moves],
        evicted |-> evict ]

\* a turn switch that ignores the winner
switch_player_always(g) ==
  [g EXCEPT !.current_player = other(g.current_player)]

\* the turn switch at the end of a successful placement
switch_player(g) ==
  IF g.winner = None
  THEN [g EXCEPT !.current_player = other(g.current_player)]
  ELSE g

\* a place_piece that lets the mover place again on a cell of their own
place_piece_refresh(g, x, y) ==
  IF g.winner # None
  THEN [g |-> g, ret |-> FALSE, evicted |-> FALSE]
  ELSE IF g.board[<<x, y>>] \in {None, g.current_player}
       THEN LET put == put_piece(g, x, y)
            IN  [ g       |-> switch_player(check_winner(put.g)),
                  ret     |-> TRUE,
                  evicted |-> put.evicted ]
       ELSE [g |-> g, ret |-> FALSE, evicted |-> FALSE]

\* a place_piece that gives the turn away when it rejects an occupied cell
place_piece_reject_switch(g, x, y) ==
  IF g.winner # None
  THEN [g |-> g, ret |-> FALSE, evicted |-> FALSE]
  ELSE IF g.board[<<x, y>>] = None
       THEN LET put == put_piece(g, x, y)
            IN  [ g       |-> switch_player(check_winner(put.g)),
                  ret     |-> TRUE,
                  evicted |-> put.evicted ]
       ELSE [g |-> switch_player(g), ret |-> FALSE, evicted |-> FALSE]

\* GameState::place_piece: the new state, the returned bool and whether the
\* oldest piece was removed
place_piece(g, x, y) ==
  IF g.winner # None
  THEN [g |-> g, ret |-> FALSE, evicted |-> FALSE]
  ELSE IF g.board[<<x, y>>] = None
       THEN LET put == put_piece(g, x, y)
            IN  [ g       |-> switch_player(check_winner(put.g)),
                  ret     |-> TRUE,
                  evicted |-> put.evicted ]
       ELSE [g |-> g, ret |-> FALSE, evicted |-> FALSE]

\* a reset that leaves the player to move as it is
reset_keep_turn(g) ==
  [g EXCEPT !.board = EmptyBoard,
            !.moves_x = << >>,
            !.moves_o = << >>,
            !.winner = None,
            !.winning_line = NoLine]

\* GameState::reset
reset(g) ==
  [g EXCEPT !.board = EmptyBoard,
            !.moves_x = << >>,
            !.moves_o = << >>,
            !.winner = None,
            !.winning_line = NoLine,
            !.current_player = "X"]

\* the empty cells in row-major order
empty_cells(board) == SelectSeq(CellSeq, LAMBDA c : board[c] = None)

\* GameState::available_moves
available_moves(g) == empty_cells(g.board)

SeqRange(s) == {s[i] : i \in 1 .. Len(s)}

------------------------------------------------------------------------------
(* The outcome of the last call: its name, the value it returned, the cell *)
(* it placed on, whether it removed the mover's oldest piece, and the cell *)
(* the computer placed on in the same call.                                *)

NoCell == << >>

\* ThreeSolver::new. epsilon is kept in units of 10^-9: 0.2
new_solver == [q_table |-> << >>, epsilon |-> 200000000]

\* the games map and its lock before any game is created, no request running
Requests == {"r1", "r2"}

new_app ==
  [games |-> << >>, lock |-> None, pc |-> [r \in Requests |-> "out"],
   id |-> [r \in Requests |-> None], op |-> [r \in Requests |-> None]]

Outcome(op, ret, cell, evicted, ai) ==
  [op |-> op, ret |-> ret, status |-> "", cell |-> cell, evicted |-> evicted,
   ai |-> ai]

\* a game between two humans: new_game without aiLevel
Init ==
  /\ game = new(FALSE, None)
  /\ last = Outcome("new", TRUE, NoCell, FALSE, NoCell)
  /\ calls = 0
  /\ solver = new_solver
  /\ app = new_app

\* a direct call of GameState::place_piece with an in-range cell
PlacePiece(x, y) ==
  LET r == place_piece(game, x, y)
  IN  /\ game' = r.g
      /\ last' = Outcome("place_piece", r.ret,
                         IF r.ret THEN <<x, y>> ELSE NoCell, r.evicted, NoCell)

\* a direct call of GameState::reset
Reset ==
  /\ game' = reset(game)
  /\ last' = Outcome("reset", TRUE, NoCell, FALSE, NoCell)

Next ==
  \/ \E x \in Coord, y \in Coord :
       PlacePiece(x, y) /\ UNCHANGED <<calls, solver, app>>
  \/ Reset /\ UNCHANGED <<calls, solver, app>>

Spec == Init /\ [][Next]_vars

------------------------------------------------------------------------------
(* AiPlayer: the computer opponent *)

I32_MIN == -2147483647 - 1

I32_MAX == 2147483647

\* the depth minimax_move passes for every difficulty but Hard
SearchDepth == 3

\* AiPlayer::new: max_depth of each difficulty
max_depth(difficulty) ==
  CASE difficulty = "Easy" -> 1
    [] difficulty = "Medium" -> 4
    [] OTHER -> 0

\* the weights load_evaluation_table reads for the keys evaluate_position
\* uses, scored for the maximizing player O
evaluation_table(key) ==
  CASE key = "opponent_three_in_row" -> 100
    [] key = "opponent_two_in_row" -> 10
    [] key = "self_two_in_row" -> -10
    [] key = "self_three_in_row" -> -100

\* GameState::undo_move: clears the cell and nothing else
undo_move(g, x, y) ==
  [g EXCEPT !.board = [g.board EXCEPT ![<<x, y>>] = None]]

\* the term of one pattern in evaluate_position
pattern_score(board, i) ==
  LET x_count == Cardinality({k \in 1 .. 3 : board[win_patterns[i][k]] = "X"})
      o_count == Cardinality({k \in 1 .. 3 : board[win_patterns[i][k]] = "O"})
  IN  IF o_count = 3 THEN evaluation_table("opponent_three_in_row")
      ELSE IF o_count = 2 /\ x_count = 0
           THEN evaluation_table("opponent_two_in_row")
      ELSE IF x_count = 2 /\ o_count = 0
           THEN evaluation_table("self_two_in_row")
      ELSE IF x_count = 3 THEN evaluation_table("self_three_in_row")
      ELSE 0

RECURSIVE sum_patterns(_, _)
sum_patterns(board, i) ==
  IF i > Len(win_patterns) THEN 0
  ELSE pattern_score(board, i) + sum_patterns(board, i + 1)

\* AiPlayer::evaluate_position
evaluate_position(g) == sum_patterns(g.board, 1)

\* format!("{:?}-{}", game_state.board, is_maximizing)
board_key(g, is_maximizing) == <<g.board, is_maximizing>>

\* the memo table HashMap<String, i32>: a function from keys to scores
new_memo == << >>

memo_has(memo, key) == key \in DOMAIN memo

memo_get(memo, key) == memo[key]

memo_insert(memo, key, score) == (key :> score) @@ memo

\* AiPlayer::minimax on the state g it mutates in place: the score, the
\* state and the memo table it leaves
RECURSIVE minimax(_, _, _, _)
RECURSIVE minimax_loop(_, _, _, _, _, _, _)

\* the for loop of minimax over the moves listed at its start, from move i
minimax_loop(g, is_maximizing, depth, memo, moves, i, best_score) ==
  IF i > Len(moves)
  THEN [score |-> best_score, g |-> g, memo |-> memo]
  ELSE LET x      == moves[i][1]
           y      == moves[i][2]
           placed == place_piece(g, x, y).g
           sub    == minimax(placed, ~is_maximizing, depth - 1, memo)
           undone == undo_move(sub.g, x, y)
       IN  IF (is_maximizing /\ sub.score > best_score)
                \/ (~is_maximizing /\ sub.score < best_score)
           THEN minimax_loop(undone, is_maximizing, depth, sub.memo, moves,
                             i + 1, sub.score)
           ELSE minimax_loop(undone, is_maximizing, depth, sub.memo, moves,
                             i + 1, best_score)

minimax(g, is_maximizing, depth, memo) ==
  LET key == board_key(g, is_maximizing)
  IN  IF memo_has(memo, key)
      THEN [score |-> memo_get(memo, key), g |-> g, memo |-> memo]
      ELSE IF g.winner # None
      THEN LET score == CASE g.winner = "O" -> 1
                          [] g.winner = "X" -> -1
                          [] OTHER -> 0
           IN  [score |-> score, g |-> g,
                memo |-> memo_insert(memo, key, score)]
      ELSE IF Len(available_moves(g)) = 0
      THEN [score |-> 0, g |-> g, memo |-> memo]
      ELSE IF depth = 0
      THEN [score |-> evaluate_position(g), g |-> g, memo |-> memo]
      ELSE LET r == minimax_loop(g, is_maximizing, depth, memo,
                                 available_moves(g), 1,
                                 IF is_maximizing THEN I32_MIN ELSE I32_MAX)
           IN  [score |-> r.score, g |-> r.g,
                memo |-> memo_insert(r.memo, key, r.score)]

\* a root loop that replaces the best moves on an equal score as well
RECURSIVE root_loop_replace(_, _, _, _, _, _)
root_loop_replace(g, depth, moves, i, best, memo) ==
  IF i > Len(moves) THEN best
  ELSE LET simulated_state == place_piece(g, moves[i][1], moves[i][2]).g
           r               == minimax(simulated_state, FALSE, depth, memo)
       IN  IF r.score >= best.best_score
           THEN root_loop_replace(g, depth, moves, i + 1,
                                  [best_score |-> r.score,
                                   best_moves |-> <<moves[i]>>],
                                  r.memo)
           ELSE root_loop_replace(g, depth, moves, i + 1, best, r.memo)

\* the loop of minimax_move from root move i: the best score so far, the
\* moves that reach it and the memo table shared by the root moves
RECURSIVE root_loop(_, _, _, _, _, _)
root_loop(g, depth, moves, i, best, memo) ==
  IF i > Len(moves) THEN best
  ELSE LET simulated_state == place_piece(g, moves[i][1], moves[i][2]).g
           r               == minimax(simulated_state, FALSE, depth, memo)
       IN  IF r.score > best.best_score
           THEN root_loop(g, depth, moves, i + 1,
                          [best_score |-> r.score, best_moves |-> <<moves[i]>>],
                          r.memo)
           ELSE IF r.score = best.best_score
           THEN root_loop(g, depth, moves, i + 1,
                          [best EXCEPT !.best_moves = Append(@, moves[i])],
                          r.memo)
           ELSE root_loop(g, depth, moves, i + 1, best, r.memo)

\* the moves best_moves holds when minimax_move chooses among them
best_moves(g, difficulty) ==
  root_loop(g,
            IF difficulty = "Hard" THEN max_depth(difficulty) ELSE SearchDepth,
            available_moves(g), 1,
            [best_score |-> I32_MIN, best_moves |-> << >>],
            new_memo).best_moves

\* slice.choose(rng): any element, or no move for an empty slice
choose(moves) == IF Len(moves) = 0 THEN {NoCell} ELSE SeqRange(moves)

\* AiPlayer::minimax_move: the moves it can return
minimax_move(g, difficulty) == choose(best_moves(g, difficulty))

\* AiPlayer::random_move: the moves it can return
random_move(g) == choose(available_moves(g))

\* QLearning::get_q_value on a table: 0.0 for an entry not in it
get_q_value(q_table, state_action) ==
  IF state_action \in DOMAIN q_table THEN q_table[state_action] ELSE 0

\* Iterator::max_by over moves from index i: the last of the greatest
RECURSIVE max_by(_, _, _, _, _)
max_by(q_table, g, moves, i, best) ==
  IF i > Len(moves) THEN best
  ELSE IF get_q_value(q_table, <<g, moves[i]>>)
            >= get_q_value(q_table, <<g, best>>)
       THEN max_by(q_table, g, moves, i + 1, moves[i])
       ELSE max_by(q_table, g, moves, i + 1, best)

\* the table of QLearning::new
new_q_table == [k \in {} |-> 0]

\* the branch of q_learning_move that does not explore, with the table of a
\* new AiPlayer: available_moves().into_iter().max_by(..)
greedy_move(g) ==
  LET moves == available_moves(g)
  IN  IF Len(moves) = 0 THEN NoCell
      ELSE max_by(new_q_table, g, moves, 2, moves[1])

\* ThreeSolver::select_best_action without exploring: the best stored action
\* of the state, none for a state the table does not hold
select_best_action(s, state) ==
  IF state \in DOMAIN s.q_table
  THEN LET actions == s.q_table[state]
       IN  {a \in DOMAIN actions :
              \A b \in DOMAIN actions : actions[b] <= actions[a]}
  ELSE {NoCell}

\* AiPlayer::q_learning_move with the table of a new AiPlayer: the moves
\* it can return, exploring or not
q_learning_move(g) == choose(available_moves(g)) \cup {greedy_move(g)}

\* AiPlayer::make_move: the moves it can return
make_move(difficulty, g) ==
  CASE difficulty = "Easy" -> random_move(g)
    [] difficulty = "Medium" -> minimax_move(g, difficulty)
    [] OTHER -> q_learning_move(g)

------------------------------------------------------------------------------
(* The move selection of AiPlayer and ThreeSolver on the positions of a game *)

\* the placements played before a selection is asked for
MaxSearchPlies == 3

\* the outcome of a selection: the branch taken and the move returned
AiOutcome(op, branch, ai) ==
  [op |-> op, ret |-> ai # NoCell, status |-> branch, cell |-> NoCell,
   evicted |-> FALSE, ai |-> ai]

\* the handler asks for a move with O to move and no winner
ai_turn(g) == g.winner = None /\ g.current_player = "O"

InitAi ==
  /\ game = new(TRUE, "Medium")
  /\ last = Outcome("new", TRUE, NoCell, FALSE, NoCell)
  /\ calls = 0
  /\ solver = new_solver
  /\ app = new_app

\* an accepted placement of the player to move
AiPlace(x, y) ==
  LET r == place_piece(game, x, y)
  IN  /\ calls < MaxSearchPlies
      /\ r.ret
      /\ game' = r.g
      /\ calls' = calls + 1
      /\ last' = Outcome("place_piece", TRUE, <<x, y>>, r.evicted, NoCell)
      /\ UNCHANGED <<solver, app>>

\* AiPlayer::minimax_move on the game, right after a placement
MinimaxMove ==
  /\ last.op = "place_piece" /\ ai_turn(game)
  /\ \E m \in minimax_move(game, "Medium") :
       last' = AiOutcome("minimax_move", "search", m)
  /\ UNCHANGED <<game, calls, solver, app>>

\* AiPlayer::q_learning_move on the game, exploring or not
QLearningMove ==
  /\ last.op = "place_piece" /\ ai_turn(game)
  /\ \/ \E m \in choose(available_moves(game)) :
          last' = AiOutcome("q_learning_move", "explore", m)
     \/ last' = AiOutcome("q_learning_move", "greedy", greedy_move(game))
  /\ UNCHANGED <<game, calls, solver, app>>

\* ThreeSolver::select_best_action on the game, exploring or not
SelectBestAction ==
  /\ last.op = "place_piece" /\ ai_turn(game)
  /\ \/ \E m \in choose(available_moves(game)) :
          last' = AiOutcome("select_best_action", "explore", m)
     \/ \E m \in select_best_action(solver, game) :
          last' = AiOutcome("select_best_action", "greedy", m)
  /\ UNCHANGED <<game, calls, solver, app>>

NextAi ==
  \/ \E x \in Coord, y \in Coord : AiPlace(x, y)
  \/ MinimaxMove
  \/ QLearningMove
  \/ SelectBestAction

SpecAi == InitAi /\ [][NextAi]_vars

------------------------------------------------------------------------------
(* handlers/game.rs: the requests on one game *)

\* the coordinates a request can carry: 3 stands for every x >= 3
MaxCoordInput == 3

\* the accepted moves explored in a Medium game, each one a search
MaxSearchCalls == 2

\* the accepted moves explored in a Hard game or a game without AI
MaxCalls == 2

\* Easy games are explored in full; calls counts the accepted moves of the
\* other games up to their bound
counted(g) == g.difficulty # "Easy"

call_limit(g) == IF g.difficulty = "Medium" THEN MaxSearchCalls ELSE MaxCalls

\* the outcome of a request: the response does not tell whether a piece was
\* removed
Response(op, status, cell, ai) ==
  [op |-> op, ret |-> status = "Ok", status |-> status, cell |-> cell,
   evicted |-> FALSE, ai |-> ai]

\* the move the computer makes in make_move: AiPlayer::make_move, or a
\* random available move when it returns none
ai_reply(g) ==
  LET difficulty == IF g.difficulty = None THEN "Medium" ELSE g.difficulty
      chosen     == make_move(difficulty, g)
  IN  (chosen \ {NoCell})
        \cup (IF NoCell \in chosen THEN choose(available_moves(g)) ELSE {})

\* a test that forgets the winner
ai_thinks_always(g) == g.is_ai_game

\* does make_move start the computer's decision after this placement
ai_thinks(g) == g.is_ai_game /\ g.winner = None

\* POST /new with any aiLevel
InitServer ==
  /\ \E d \in Difficulties \cup {None} : game = new(d # None, d)
  /\ last = Response("new", "Ok", NoCell, NoCell)
  /\ calls = 0
  /\ solver = new_solver
  /\ app = new_app

\* POST /move/{game_id} with the body (x, y)
MakeMove(x, y) ==
  IF x >= 3 \/ y >= 3
  THEN /\ game' = game
       /\ last' = Response("make_move", "Invalid move position", NoCell,
                           NoCell)
       /\ UNCHANGED calls
  ELSE LET r == place_piece(game, x, y)
       IN  IF r.ret
           THEN /\ counted(game) => calls < call_limit(game)
                /\ calls' = IF counted(game) THEN calls + 1 ELSE calls
                /\ IF ai_thinks(r.g)
                   THEN \E m \in ai_reply(r.g) :
                          /\ game' = IF m = NoCell THEN r.g
                                     ELSE place_piece(r.g, m[1], m[2]).g
                          /\ last' = Response("make_move", "Ok", <<x, y>>, m)
                   ELSE /\ game' = r.g
                        /\ last' = Response("make_move", "Ok", <<x, y>>,
                                            NoCell)
           ELSE /\ game' = r.g
                /\ last' = Response("make_move", "Invalid move", NoCell,
                                    NoCell)
                /\ UNCHANGED calls

\* POST /reset/{game_id}
ResetGame ==
  LET is_ai_game == game.is_ai_game
      difficulty == game.difficulty
  IN  /\ game' = [reset(game) EXCEPT !.is_ai_game = is_ai_game,
                                     !.difficulty = difficulty]
      /\ last' = Response("reset_game", "Ok", NoCell, NoCell)
      /\ UNCHANGED calls

NextServer ==
  \/ \E x \in 0 .. MaxCoordInput, y \in 0 .. MaxCoordInput :
       MakeMove(x, y) /\ UNCHANGED <<solver, app>>
  \/ ResetGame /\ UNCHANGED <<solver, app>>

SpecServer == InitServer /\ [][NextServer]_vars

------------------------------------------------------------------------------
(* handlers/game.rs: concurrent requests on the games of AppState *)

\* the accepted placements of make_move requests explored
MaxAppMoves == 1

\* the ids of the two games created by POST /new: "a" with the Easy
\* computer player, "b" without a computer player
GameIds == {"a", "b"}

\* an id no game was created with
NoGame == "none"

\* the map after the two POST /new requests
new_games == [h \in GameIds |-> IF h = "a" THEN new(TRUE, "Easy")
                                           ELSE new(FALSE, None)]

\* a lock that lets every request in
can_lock_always(a) == TRUE

\* data.games.lock().await returns when no request holds the guard
can_lock(a) == a.lock = None

\* is game_id a key of the map
contains_key(a, id) == id \in DOMAIN a.games

\* games.get(&game_id)
get(a, id) == IF id \in DOMAIN a.games THEN a.games[id] ELSE None

\* the map after the write through games.get_mut(&game_id)
games_with(a, id, g) ==
  [h \in DOMAIN a.games |-> IF h = id THEN g ELSE a.games[h]]

pc_with(a, r, p) == [q \in Requests |-> IF q = r THEN p ELSE a.pc[q]]

\* the response of request r; body is the GameState it carries
AppResponse(op, r, id, status, body) ==
  [op |-> op, ret |-> status = "Ok", status |-> status, r |-> r, id |-> id,
   body |-> body]

\* the handler returns: the guard is dropped with it
return(a, r) ==
  [a EXCEPT !.lock = None, !.pc = pc_with(a, r, "out"),
            !.id = [q \in Requests |-> IF q = r THEN None ELSE a.id[q]],
            !.op = [q \in Requests |-> IF q = r THEN None ELSE a.op[q]]]

InitApp ==
  /\ game = new(FALSE, None)
  /\ last = AppResponse("new", None, NoGame, "Ok", None)
  /\ calls = 0
  /\ solver = new_solver
  /\ app = [new_app EXCEPT !.games = new_games]

\* a request arrives and waits for the lock
Arrive(r, op, id) ==
  /\ app.pc[r] = "out"
  /\ app' = [app EXCEPT !.pc = pc_with(app, r, "lock"),
               !.id = [q \in Requests |-> IF q = r THEN id ELSE app.id[q]],
               !.op = [q \in Requests |-> IF q = r THEN op ELSE app.op[q]]]
  /\ UNCHANGED <<game, last, calls, solver>>

\* data.games.lock().await
Lock(r) ==
  /\ app.pc[r] = "lock"
  /\ can_lock(app)
  /\ app' = [app EXCEPT !.lock = r, !.pc = pc_with(app, r, "body")]
  /\ UNCHANGED <<game, last, calls, solver>>

\* a request for an id that is not in the map
NotFound(r) ==
  /\ app.pc[r] = "body"
  /\ ~contains_key(app, app.id[r])
  /\ app' = return(app, r)
  /\ last' = AppResponse(app.op[r], r, app.id[r], "Game not found", None)
  /\ UNCHANGED <<game, calls, solver>>

\* make_move up to the player's placement with the body (x, y)
HumanPlace(r, x, y) ==
  /\ app.pc[r] = "body"
  /\ app.op[r] = "make_move"
  /\ contains_key(app, app.id[r])
  /\ IF x >= 3 \/ y >= 3
     THEN /\ app' = return(app, r)
          /\ last' = AppResponse("make_move", r, app.id[r],
                                 "Invalid move position", None)
          /\ UNCHANGED calls
     ELSE LET p == place_piece(get(app, app.id[r]), x, y)
              a == [app EXCEPT !.games = games_with(app, app.id[r], p.g)]
          IN  IF p.ret
              THEN /\ calls < MaxAppMoves
                   /\ calls' = calls + 1
                   /\ IF ai_thinks(p.g)
                      THEN /\ app' = [a EXCEPT !.pc = pc_with(a, r, "ai")]
                           /\ UNCHANGED last
                      ELSE /\ app' = return(a, r)
                           /\ last' = AppResponse("make_move", r, app.id[r],
                                                  "Ok", p.g)
              ELSE /\ app' = return(a, r)
                   /\ last' = AppResponse("make_move", r, app.id[r],
                                          "Invalid move", None)
                   /\ UNCHANGED calls
  /\ UNCHANGED <<game, solver>>

\* make_move from the computer's decision to the response
AiReply(r) ==
  /\ app.pc[r] = "ai"
  /\ LET g == get(app, app.id[r])
     IN  \E m \in ai_reply(g) :
           LET replied == IF m = NoCell THEN g
                          ELSE place_piece(g, m[1], m[2]).g
           IN  /\ app' = return([app EXCEPT !.games =
                                   games_with(app, app.id[r], replied)], r)
               /\ last' = AppResponse("make_move", r, app.id[r], "Ok",
                                      replied)
  /\ UNCHANGED <<game, calls, solver>>

\* get_board
GetBoard(r) ==
  /\ app.pc[r] = "body"
  /\ app.op[r] = "get_board"
  /\ contains_key(app, app.id[r])
  /\ app' = return(app, r)
  /\ last' = AppResponse("get_board", r, app.id[r], "Ok",
                         get(app, app.id[r]))
  /\ UNCHANGED <<game, calls, solver>>

\* reset_game
AppReset(r) ==
  /\ app.pc[r] = "body"
  /\ app.op[r] = "reset_game"
  /\ contains_key(app, app.id[r])
  /\ LET g          == get(app, app.id[r])
         is_ai_game == g.is_ai_game
         difficulty == g.difficulty
         cleared    == [reset(g) EXCEPT !.is_ai_game = is_ai_game,
                                        !.difficulty = difficulty]
     IN  /\ app' = return([app EXCEPT !.games =
                             games_with(app, app.id[r], cleared)], r)
         /\ last' = AppResponse("reset_game", r, app.id[r], "Ok", cleared)
  /\ UNCHANGED <<game, calls, solver>>

NextApp ==
  \/ \E r \in Requests, id \in GameIds \cup {NoGame},
        op \in {"make_move", "get_board", "reset_game"} : Arrive(r, op, id)
  \/ \E r \in Requests : Lock(r)
  \/ \E r \in Requests : NotFound(r)
  \/ \E r \in Requests, x \in 0 .. MaxCoordInput, y \in 0 .. MaxCoordInput :
       HumanPlace(r, x, y)
  \/ \E r \in Requests : AiReply(r)
  \/ \E r \in Requests : GetBoard(r)
  \/ \E r \in Requests : AppReset(r)

SpecApp == InitApp /\ [][NextApp]_vars

------------------------------------------------------------------------------
(* One game played on: the players place as long as a placement is accepted *)

\* the players use the first cells of the board in row-major order
MaxPlayCells == 7

PlayCells ==
  {CellSeq[i] : i \in {j \in 1 .. MaxPlayCells : j <= Len(CellSeq)}}

\* an accepted placement of the player to move
Play(x, y) ==
  LET r == place_piece(game, x, y)
  IN  /\ r.ret
      /\ game' = r.g
      /\ last' = Outcome("place_piece", TRUE, <<x, y>>, r.evicted, NoCell)
      /\ UNCHANGED <<calls, solver, app>>

NextPlay == \E c \in PlayCells : Play(c[1], c[2])

\* the game goes on while some placement is accepted
SpecPlay == Init /\ [][NextPlay]_vars /\ WF_vars(NextPlay)

------------------------------------------------------------------------------
(* three_solver.rs: the exploration rate of ThreeSolver *)

\* ThreeSolver::decay_epsilon: epsilon *= 0.995 while epsilon > 0.01, the
\* product e - e/200 rounded up to the unit 10^-9
decay_epsilon(s) ==
  IF s.epsilon > 10000000
  THEN [s EXCEPT !.epsilon = @ - @ \div 200]
  ELSE s

\* a ThreeSolver right after ThreeSolver::new
InitDecay ==
  /\ game = new(FALSE, None)
  /\ last = Outcome("new", TRUE, NoCell, FALSE, NoCell)
  /\ calls = 0
  /\ solver = new_solver
  /\ app = new_app

\* a call of ThreeSolver::decay_epsilon
DecayEpsilon ==
  /\ solver' = decay_epsilon(solver)
  /\ last' = Outcome("decay_epsilon", TRUE, NoCell, FALSE, NoCell)
  /\ UNCHANGED <<game, calls, app>>

NextDecay == DecayEpsilon

SpecDecay == InitDecay /\ [][NextDecay]_vars

------------------------------------------------------------------------------
(* Properties of GameState under place_piece and reset *)

moves_of(g, p) == IF p = "X" THEN g.moves_x ELSE g.moves_o

cells_of(board, p) == {c \in Cells : board[c] = p}

\* C1: after any sequence of place_piece calls and resets from a new game,
\* X occupies at most 3 cells of the board and O occupies at most 3.
C1_AtMostThree ==
  \A p \in Players : Cardinality(cells_of(game.board, p)) <= 3

\* both players hold three pieces right after a placement that removed the
\* mover's oldest piece
C1_Witness ==
  /\ last.op = "place_piece" /\ last.ret /\ last.evicted
  /\ \A p \in Players : Cardinality(cells_of(game.board, p)) = 3

\* C2: a successful placement by a player who has 3 pieces empties the cell
\* of that player's oldest placement, puts the piece on the chosen cell and
\* leaves that player's other two cells and all the opponent's cells as they
\* were; a placement by a player with fewer than 3 pieces clears no cell.
C2_Step(c) ==
  LET p    == game.current_player
      mine == cells_of(game.board, p)
      old  == Head(moves_of(game, p))
  IN  IF Cardinality(mine) = 3
      THEN /\ game'.board[old] = None
           /\ game'.board[c] = p
           /\ \A d \in mine \ {old} : game'.board[d] = p
           /\ \A d \in cells_of(game.board, other(p)) :
                game'.board[d] = other(p)
           /\ \A d \in Cells \ (mine \cup {c}) :
                game'.board[d] = game.board[d]
      ELSE /\ game'.board[c] = p
           /\ \A d \in Cells \ {c} : game'.board[d] = game.board[d]

C2_SlidingWindow ==
  [][(last'.op = "place_piece" /\ last'.ret) => C2_Step(last'.cell)]_vars

\* a fourth placement has just removed the mover's oldest piece
C2_Witness ==
  /\ last.op = "place_piece" /\ last.ret /\ last.evicted
  /\ Len(moves_of(game, other(game.current_player))) = 3
  /\ game.winner = None

\* C3: each player's move history has at most 3 entries, no repeated cell,
\* holds exactly the cells that player occupies on the board, and is ordered
\* oldest first: a successful placement appends the new cell at the end and
\* keeps the order of the entries that remain, dropping the first one when
\* the history was full.
C3_Inv ==
  \A p \in Players :
    LET m == moves_of(game, p)
    IN  /\ Len(m) <= 3
        /\ \A i, j \in 1 .. Len(m) : m[i] = m[j] => i = j
        /\ SeqRange(m) = cells_of(game.board, p)

C3_Step(c) ==
  LET p == game.current_player
      m == moves_of(game, p)
  IN  /\ moves_of(game', p) =
           (IF Len(m) = 3 THEN Tail(m) ELSE m) \o << c >>
      /\ moves_of(game', other(p)) = moves_of(game, other(p))

C3_History ==
  /\ []C3_Inv
  /\ [][(last'.op = "place_piece" /\ last'.ret) => C3_Step(last'.cell)]_vars

\* both histories are full after an eviction and X's three entries are in
\* the order they were placed
C3_Witness ==
  /\ last.evicted
  /\ game.moves_x = << <<0, 1>>, <<1, 1>>, <<2, 2>> >>
  /\ Len(game.moves_o) = 3

\* C4: the player to move changes after a successful placement without a
\* winner, stays after a successful placement with a winner, stays after a
\* rejected placement, and is X in a new or reset game.
C4_Step ==
  /\ (last'.op = "place_piece" /\ last'.ret /\ game'.winner = None)
       => game'.current_player = other(game.current_player)
  /\ (last'.op = "place_piece" /\ last'.ret /\ game'.winner # None)
       => game'.current_player = game.current_player
  /\ (last'.op = "place_piece" /\ ~last'.ret)
       => game'.current_player = game.current_player

C4_Turn ==
  /\ [](last.op \in {"new", "reset"} => game.current_player = "X")
  /\ [][C4_Step]_vars

\* O has just won: the turn stayed with O
C4_Witness ==
  /\ last.op = "place_piece" /\ last.ret
  /\ game.winner = "O"
  /\ game.current_player = "O"

\* C5: place_piece on an in-range cell returns false exactly when a winner
\* is recorded or the cell is occupied, by either player, and then changes
\* nothing; so after (1,1), (0,0), (2,2) a placement at (1,1) is rejected
\* and the histories stay as they were.
C5_Returns ==
  \A c \in Cells :
    LET r == place_piece(game, c[1], c[2])
    IN  /\ ~r.ret <=> (game.winner # None \/ game.board[c] # None)
        /\ ~r.ret => r.g = game

C5_Step ==
  /\ (last'.op = "place_piece" /\ last'.ret)
       => (game.winner = None /\ game.board[last'.cell] = None)
  /\ (last'.op = "place_piece" /\ ~last'.ret)
       => /\ game' = game
          /\ game.winner # None \/ \E c \in Cells : game.board[c] # None

C5_Rejection == []C5_Returns /\ [][C5_Step]_vars

\* the state after (1,1), (0,0), (2,2) and the rejected (1,1)
C5_Witness ==
  /\ last.op = "place_piece" /\ ~last.ret
  /\ game.moves_x = << <<1, 1>>, <<2, 2>> >>
  /\ game.moves_o = << <<0, 0>> >>
  /\ game.current_player = "O"
  /\ game.winner = None

\* the numbers of the patterns that are complete on the board
complete_lines(board) ==
  {i \in 1 .. Len(win_patterns) : line_complete(board, i)}

Min(S) == CHOOSE i \in S : \A j \in S : i <= j

\* C7: a winner is recorded exactly when one of the 8 lines holds three
\* pieces of one player; the winner is that player, the winning line is the
\* first complete line in the order rows, columns, diagonals, and winner and
\* winning line are set together.
C7_Winner ==
  LET done == complete_lines(game.board)
  IN  /\ game.winner # None <=> done # {}
      /\ game.winner = None <=> game.winning_line = NoLine
      /\ done # {} =>
           /\ game.winning_line = win_patterns[Min(done)]
           /\ game.winner = game.board[win_patterns[Min(done)][1]]
           /\ game.winner \in Players

\* X holds the top row against O on (1,1) and (2,2)
C7_Witness ==
  /\ last.op = "place_piece" /\ last.ret
  /\ game.winner = "X"
  /\ game.winning_line = << <<0, 0>>, <<0, 1>>, <<0, 2>> >>
  /\ cells_of(game.board, "O") = {<<1, 1>>, <<2, 2>>}

\* a diagonal win
C7_DiagonalWitness ==
  /\ game.winner = "O"
  /\ game.winning_line = << <<0, 2>>, <<1, 1>>, <<2, 0>> >>

------------------------------------------------------------------------------
(* Properties of the requests *)

\* the state between the player's placement and the computer's reply in the
\* request that has just been answered Ok
mid_state(c) == place_piece(game, c[1], c[2]).g

\* an accepted request in this step, and the cell its player chose
accepted == last'.op = "make_move" /\ last'.ret

request_cell == CHOOSE c \in Cells : c = last'.cell

\* C6: a rejected move (coordinate outside the grid, cell occupied, game
\* decided) leaves board, histories, player to move, winner and winning line
\* as they were and makes no computer placement; a move is accepted only on
\* an empty cell of an undecided game, so a decided game changes by a reset
\* only.
C6_Step ==
  /\ (last'.op = "make_move" /\ ~last'.ret)
       => (game' = game /\ last'.ai = NoCell)
  /\ (last'.op = "make_move" /\ last'.ret)
       => (game.winner = None /\ game.board[last'.cell] = None)
  /\ (game.winner # None /\ last'.op # "reset_game") => game' = game

C6_RejectedUnchanged == [][C6_Step]_vars

\* a move on a decided computer game has been rejected, and an out-of-range
\* one on a game in play
C6_Witness ==
  /\ last.op = "make_move" /\ last.status = "Invalid move"
  /\ game.is_ai_game /\ game.winner = "O"

C6_PositionWitness ==
  /\ last.op = "make_move" /\ last.status = "Invalid move position"
  /\ game.is_ai_game /\ Len(game.moves_o) = 3 /\ game.winner = None

\* C8: reset_game in any state gives the state of a new game with the same
\* is_ai_game and difficulty, and every placement is accepted after it.
C8_Step ==
  last'.op = "reset_game" => game' = new(game.is_ai_game, game.difficulty)

C8_Accepting ==
  last.op = "reset_game"
    => /\ \A c \in Cells : place_piece(game, c[1], c[2]).ret
       /\ game.board = EmptyBoard /\ game.moves_x = << >>
       /\ game.moves_o = << >> /\ game.winner = None
       /\ game.winning_line = NoLine /\ game.current_player = "X"

C8_Reset == []C8_Accepting /\ [][C8_Step]_vars

\* a Hard game after its reset
C8_Witness ==
  /\ last.op = "reset_game"
  /\ game.is_ai_game /\ game.difficulty = "Hard"

\* C9: in a computer game a request whose placement succeeds without a
\* winner applies exactly one placement of O, on a cell empty after the
\* player's placement and with O to move; without AI, or when the player's
\* placement wins, there is none; so a computer game between requests has a
\* winner or X to move.
C9_Step(c, ai) ==
  LET mid == mid_state(c)
  IN  IF game.is_ai_game /\ mid.winner = None
      THEN /\ ai \in Cells
           /\ mid.board[ai] = None
           /\ mid.current_player = "O"
           /\ game'.board[ai] = "O"
           /\ game'.moves_x = mid.moves_x
           /\ game'.moves_o =
                (IF Len(mid.moves_o) = 3 THEN Tail(mid.moves_o)
                 ELSE mid.moves_o) \o << ai >>
           /\ \A d \in Cells \ {ai} :
                game'.board[d] # mid.board[d] =>
                  (Len(mid.moves_o) = 3 /\ d = Head(mid.moves_o))
      ELSE ai = NoCell /\ game' = mid

C9_Turn == game.is_ai_game => (game.winner # None \/ game.current_player = "X")

C9_AiReply ==
  /\ []C9_Turn
  /\ [][accepted => C9_Step(request_cell, last'.ai)]_vars

\* the computer has won with its reply
C9_Witness ==
  /\ last.op = "make_move" /\ last.ret /\ last.ai \in Cells
  /\ game.winner = "O"

\* the player has won and the computer has not replied
C9_NoReplyWitness ==
  /\ last.op = "make_move" /\ last.ret /\ last.ai = NoCell
  /\ game.is_ai_game /\ game.winner = "X"

\* the empty cells that complete a line on which X has two pieces and O none
threats(board) ==
  {c \in Cells :
     /\ board[c] = None
     /\ \E i \in 1 .. Len(win_patterns) :
          /\ c \in SeqRange(win_patterns[i])
          /\ \A d \in SeqRange(win_patterns[i]) \ {c} : board[d] = "X"}

\* C10: when X has two pieces on a line whose third cell is empty, the
\* computer plays that cell: for every difficulty while fewer than 6 moves
\* are recorded, and for the search of Medium always.
C10_Step(c, ai) ==
  LET mid == mid_state(c)
  IN  (/\ threats(mid.board) # {}
       /\ \/ Len(mid.moves_x) + Len(mid.moves_o) < 6
          \/ mid.difficulty = "Medium")
        => ai \in threats(mid.board)

C10_Blocks ==
  [][(accepted /\ last'.ai \in Cells)
       => C10_Step(request_cell, last'.ai)]_vars

\* the same for the games of difficulty Medium alone
C10_SearchBlocks ==
  [][(game.difficulty = "Medium" /\ accepted /\ last'.ai \in Cells)
       => C10_Step(request_cell, last'.ai)]_vars

------------------------------------------------------------------------------
(* Further properties of GameState under place_piece and reset *)

\* C15: in every state reached by place_piece and reset at most one of the
\* 8 lines holds three pieces of one player.
C15_OneLine == Cardinality(complete_lines(game.board)) <= 1

\* a line is complete while the other player holds three pieces as well
C15_Witness ==
  /\ Cardinality(complete_lines(game.board)) = 1
  /\ Cardinality(cells_of(game.board, "X")) = 3
  /\ Cardinality(cells_of(game.board, "O")) = 3

\* C20: in every state reached by place_piece and reset the board has at
\* least 3 empty cells and at most 6 pieces, so available_moves is never
\* empty and random_move and q_learning_move always return a cell.
C20_ThreeEmpty ==
  /\ Len(empty_cells(game.board)) >= 3
  /\ Cardinality(cells_of(game.board, "X"))
       + Cardinality(cells_of(game.board, "O")) <= 6
  /\ Len(available_moves(game)) > 0
  /\ NoCell \notin random_move(game)
  /\ NoCell \notin q_learning_move(game)

\* exactly 3 cells are empty after an eviction
C20_Witness ==
  /\ last.op = "place_piece" /\ last.ret /\ last.evicted
  /\ Len(empty_cells(game.board)) = 3
  /\ game.winner = None

------------------------------------------------------------------------------
(* Properties of ThreeSolver *)

\* C19: after any number of decay_epsilon calls from the initial rate 0.2
\* the exploration rate is at least 0.01, and each call multiplies the rate
\* by 0.995 or leaves it at no less than 0.01.
C19_Floor == solver.epsilon >= 10000000

\* the rate has gone below 0.01 and decay_epsilon has stopped changing it
C19_BelowFloor ==
  /\ last.op = "decay_epsilon"
  /\ solver.epsilon < 10000000
  /\ decay_epsilon(solver) = solver

------------------------------------------------------------------------------
(* Properties of the move selection *)

\* C18: the greedy branch returns the legal move of highest stored value,
\* the first in row-major order among equals, so with an empty table the
\* first legal move.
C18_FirstBest ==
  (last.op \in {"q_learning_move", "select_best_action"}
     /\ last.status = "greedy")
    => last.ai = Head(available_moves(game))

\* q_learning_move has returned the last legal move, and select_best_action
\* no move at all
C18_LastWitness ==
  /\ last.op = "q_learning_move" /\ last.status = "greedy"
  /\ last.ai = available_moves(game)[Len(available_moves(game))]
  /\ last.ai # Head(available_moves(game))

C18_NoMoveWitness ==
  /\ last.op = "select_best_action" /\ last.status = "greedy"
  /\ last.ai = NoCell
  /\ Len(available_moves(game)) > 0

\* the scores minimax_move gives the root moves from move i on, in the
\* order of the moves, each search starting with the table the one before
\* it left
RECURSIVE root_scores(_, _, _, _, _)
root_scores(g, depth, moves, i, memo) ==
  IF i > Len(moves) THEN << >>
  ELSE LET r == minimax(place_piece(g, moves[i][1], moves[i][2]).g, FALSE,
                        depth, memo)
       IN  << r.score >> \o root_scores(g, depth, moves, i + 1, r.memo)

Max(S) == CHOOSE i \in S : \A j \in S : j <= i

\* C11: the moves minimax_move can return are exactly the legal moves whose
\* search score is the greatest of the scores of all legal root moves; it
\* returns no move only without a legal move, and it leaves the game as it
\* is.
C11_Inv ==
  (last.op = "place_piece" /\ ai_turn(game)) =>
    LET moves  == available_moves(game)
        scores == root_scores(game, SearchDepth, moves, 1, new_memo)
        best   == Max(SeqRange(scores))
    IN  /\ Len(scores) = Len(moves)
        /\ minimax_move(game, "Medium")
             = {moves[i] : i \in {j \in 1 .. Len(moves) : scores[j] = best}}
        /\ NoCell \in minimax_move(game, "Medium") <=> Len(moves) = 0

C11_Step ==
  last'.op = "minimax_move" =>
    /\ game' = game
    /\ last'.ai \in SeqRange(available_moves(game))

C11_RootSelection == []C11_Inv /\ [][C11_Step]_vars

\* the search has returned one of several moves of the greatest score, with
\* a legal move of a smaller score left out
C11_Witness ==
  /\ last.op = "minimax_move"
  /\ Cardinality(minimax_move(game, "Medium")) > 1
  /\ Cardinality(minimax_move(game, "Medium")) < Len(available_moves(game))

\* the score of a position by the rules of the search on positions of
\* their own: 1 or -1 for a winner, 0 without a legal move, the evaluation
\* at depth 0, else the greatest or the least score of the positions the
\* legal moves lead to
RECURSIVE position_score(_, _, _)
position_score(g, is_maximizing, depth) ==
  IF g.winner # None THEN (IF g.winner = "O" THEN 1 ELSE -1)
  ELSE IF Len(available_moves(g)) = 0 THEN 0
  ELSE IF depth = 0 THEN evaluate_position(g)
  ELSE LET moves  == available_moves(g)
           scores == {position_score(place_piece(g, moves[i][1],
                                                  moves[i][2]).g,
                                     ~is_maximizing, depth - 1) :
                        i \in 1 .. Len(moves)}
       IN  IF is_maximizing THEN Max(scores) ELSE Min(scores)

\* C16: in the search a placement followed by the search below it and the
\* undo of the placement gives back the state before the placement, so the
\* score of a node is the greatest or least score of the positions its legal
\* moves lead to.
C16_UndoRestores ==
  (last.op = "place_piece" /\ ai_turn(game)) =>
    \A m \in SeqRange(available_moves(game)) :
      LET node == place_piece(game, m[1], m[2]).g
      IN  node.winner = None =>
            /\ \A n \in SeqRange(available_moves(node)) :
                 LET placed == place_piece(node, n[1], n[2]).g
                     sub    == minimax(placed, TRUE, SearchDepth - 1, new_memo)
                 IN  undo_move(sub.g, n[1], n[2]) = node
            /\ minimax(node, FALSE, SearchDepth, new_memo).score
                 = position_score(node, FALSE, SearchDepth)

\* AiPlayer::minimax without its table: the score and the state it leaves
RECURSIVE minimax_without_memo(_, _, _)
RECURSIVE loop_without_memo(_, _, _, _, _, _)
loop_without_memo(g, is_maximizing, depth, moves, i, best_score) ==
  IF i > Len(moves)
  THEN [score |-> best_score, g |-> g]
  ELSE LET x      == moves[i][1]
           y      == moves[i][2]
           placed == place_piece(g, x, y).g
           sub    == minimax_without_memo(placed, ~is_maximizing, depth - 1)
           undone == undo_move(sub.g, x, y)
       IN  IF (is_maximizing /\ sub.score > best_score)
                \/ (~is_maximizing /\ sub.score < best_score)
           THEN loop_without_memo(undone, is_maximizing, depth, moves, i + 1,
                                  sub.score)
           ELSE loop_without_memo(undone, is_maximizing, depth, moves, i + 1,
                                  best_score)

minimax_without_memo(g, is_maximizing, depth) ==
  IF g.winner # None
  THEN [score |-> IF g.winner = "O" THEN 1 ELSE -1, g |-> g]
  ELSE IF Len(available_moves(g)) = 0 THEN [score |-> 0, g |-> g]
  ELSE IF depth = 0 THEN [score |-> evaluate_position(g), g |-> g]
  ELSE loop_without_memo(g, is_maximizing, depth, available_moves(g), 1,
                         IF is_maximizing THEN I32_MIN ELSE I32_MAX)

\* C17: the search with its table gives every root move the score the
\* search without the table gives it.
C17_MemoSameScores ==
  (last.op = "place_piece" /\ ai_turn(game)) =>
    LET moves == available_moves(game)
    IN  root_scores(game, SearchDepth, moves, 1, new_memo)
          = [i \in 1 .. Len(moves) |->
               minimax_without_memo(
                 place_piece(game, moves[i][1], moves[i][2]).g, FALSE,
                 SearchDepth).score]

------------------------------------------------------------------------------
(* Properties of a game played on *)

\* no placement is accepted any more
game_over == \A c \in PlayCells : ~place_piece(game, c[1], c[2]).ret

\* C13: a game that returns to a position without a winner ends in a draw
\* and accepts no further placement, so every game played on ends with a
\* winner or a draw.
C13_Ends == <>game_over

\* a game that has ended, with a winner
C13_WonWitness == game_over /\ game.winner # None


------------------------------------------------------------------------------
(* Properties of concurrent requests *)

\* a request that holds the games map
in_handler(r) == app.pc[r] \in {"body", "ai"}

\* an AI game seen between the player's placement and the computer's reply
half_moved(g) == g.is_ai_game /\ g.winner = None /\ g.current_player = "O"

C14_Inv ==
  /\ \A r \in Requests, q \in Requests :
       r # q => ~(in_handler(r) /\ in_handler(q))
  /\ last.op = "get_board" /\ last.ret => ~half_moved(last.body)

C14_Step ==
  /\ \A r \in Requests :
       app.pc[r] = "ai" /\ app'.pc[r] = "ai" => app'.games = app.games
  /\ \A h \in GameIds :
       app'.games[h] # app.games[h]
         => \E r \in Requests : app'.pc[r] # app.pc[r] /\ app.id[r] = h

\* C14: requests are serialized: at most one request is inside a handler, so
\* while a make_move is between the player's placement and the computer's
\* reply no other request changes a game, get_board never returns an AI game
\* with no winner and O to move, and a step changes only the game whose id
\* the acting request carries.
C14_Serialized == []C14_Inv /\ [][C14_Step]_vars

\* a request for the same game waits for the lock while a make_move is
\* between the player's placement and the computer's reply
C14_Witness ==
  \E r \in Requests, q \in Requests :
    /\ r # q
    /\ app.pc[r] = "ai"
    /\ app.pc[q] = "lock"
    /\ app.id[q] = app.id[r]


------------------------------------------------------------------------------
(* Properties of the recorded winner *)

\* the state with a recorded winner: the player to move is the winner, the
\* winning line is the winner's pieces and whole move history, and the other
\* player has no complete line
C21_Inv ==
  game.winner # None =>
    /\ game.current_player = game.winner
    /\ SeqRange(game.winning_line) = cells_of(game.board, game.winner)
    /\ SeqRange(game.winning_line) = SeqRange(moves_of(game, game.winner))
    /\ Len(moves_of(game, game.winner)) = 3
    /\ \A i \in complete_lines(game.board) :
         game.board[win_patterns[i][1]] # other(game.winner)

\* a winner appears only by an accepted placement and is its mover; no
\* placement is accepted after it, so the winner's placement stays the last
C21_Step ==
  /\ last'.op = "place_piece" /\ last'.ret =>
       /\ game.winner = None
       /\ game'.winner \in {None, game.current_player}
  /\ game.winner = None /\ game'.winner # None =>
       /\ last'.op = "place_piece" /\ last'.ret
       /\ game'.winner = game.current_player
       /\ game'.board[last'.cell] = game'.winner

\* C21: whenever a winner is recorded, the winner is the player who made the
\* last successful placement, the player to move equals the winner, the three
\* cells of the winning line hold the winner's pieces and are that player's
\* whole move history, and the other player has no complete line; a placement
\* never makes the opponent of the mover the winner.
C21_WinnerIsMover == []C21_Inv /\ [][C21_Step]_vars

\* O has just won by a placement that removed O's oldest piece, while X
\* holds three pieces
C21_Witness ==
  /\ last.op = "place_piece" /\ last.ret /\ last.evicted
  /\ game.winner = "O"
  /\ game.board[last.cell] = "O"
  /\ Cardinality(cells_of(game.board, "X")) = 3

==============================================================================
